---------------------------- MODULE Spec2Model ----------------------------
(***************************************************************************)
(* Model of cert_server.py, the Lutron Caseta certificate wizard.          *)
(*                                                                         *)
(* State: the three artifact files under SSL_PATH, the Flask session, and  *)
(* what the last handled request did (its input, the HTTP exchanges it     *)
(* made, the messages it flashed, the response it produced).  One action   *)
(* per Flask route; each action is the whole handler.                      *)
(***************************************************************************)
EXTENDS Integers, Sequences, FiniteSets, TLC

VARIABLES
    files,      \* SSL_PATH: the directory and KEY_FILE, CERT_FILE, CA_FILE
    session,    \* Flask session: a function from the keys set to their values
    keygen,     \* number of keys rsa.generate_private_key has produced so far
    req,        \* the last request: route, form input, files before it ran
    netlog,     \* HTTP/LEAP requests the last request sent, with the replies
    flashed,    \* flash() calls of the last request, in order
    result,     \* the response of the last request
    keycall,    \* what get_private_key did in its last two calls
    bridge,     \* what the bridge did during the last request
    stream,     \* the reads the bridge delivers, when they are drawn at start
    threads     \* the requests in flight when the server runs them in threads

vars == <<files, session, keygen, req, netlog, flashed, result, keycall,
          bridge, stream, threads>>

---------------------------------------------------------------------------
(* Bounds *)

\* rsa.generate_private_key returns a fresh key each time: key k is the
\* k-th key generated; generation stops after MaxKeys keys.
MaxKeys == 2

\* Longest bridge byte stream, in lines, that a bootstrap reads.
MaxLines == 2

---------------------------------------------------------------------------
(* Files *)

\* A file is present or not; its content is a sequence of blocks.
\*   KEY_FILE : <<k>> is the PEM of key k, <<>> is content that is no PEM key
\*   CERT_FILE: the blocks written by get_certificate, in order
\*   CA_FILE  : <<c>>, the PEM of peer certificate c
Absent == [exists |-> FALSE, data |-> <<>>]

File(d) == [exists |-> TRUE, data |-> d]

\* Blocks of CERT_FILE.  An application certificate binds the public key of
\* the key that signed the CSR.
AppCert(k) == [t |-> "app", k |-> k]

RemoteCert == [t |-> "remote", k |-> 0]

JunkText == [t |-> "junk", k |-> 0]

IsPem(b) == b.t \in {"app", "remote"}

\* ensure_path: os.makedirs(SSL_PATH, exist_ok=True) unless it is a directory.
ensure_path(fs) == IF fs.dir THEN fs ELSE [fs EXCEPT !.dir = TRUE]

\* os.path.isfile
isfile(f) == f.exists

\* The state main() leaves behind on fresh storage: the directory and no file.
FreshFiles == [dir |-> TRUE, key |-> Absent, cert |-> Absent, ca |-> Absent]

---------------------------------------------------------------------------
(* Strings of the redirect form field *)

\* A string is a sequence of symbols.  "code=" stands for those five
\* characters; "a" and "b" are characters of [0-9a-f]; "/" and "&" are
\* printable characters outside [0-9a-f]; " " and "\n" are whitespace.
IsHex(c) == c \in {"a", "b"}

IsSpace(c) == c \in {" ", "\n"}

\* '.' (no DOTALL) matches everything but a newline.
IsDot(c) == c # "\n"

\* The part of s after position k.
Rest(s, k) == SubSeq(s, k + 1, Len(s))

\* Length of the longest prefix of s made of [0-9a-f].
HexLen(s) ==
    CHOOSE m \in 0..Len(s) :
        /\ \A i \in 1..m : IsHex(s[i])
        /\ m = Len(s) \/ ~IsHex(s[m + 1])

HexPrefix(s) == SubSeq(s, 1, HexLen(s))

\* s matches ([0-9a-f]*)\s*$ from its first character.
TailMatch(s) == \A i \in (HexLen(s) + 1)..Len(s) : IsSpace(s[i])

\* Positions k such that (.*?code=) can end at k and the rest still matches.
GroupEnds(s) ==
    {k \in 1..Len(s) :
        /\ s[k] = "code="
        /\ \A i \in 1..(k - 1) : IsDot(s[i])
        /\ TailMatch(Rest(s, k))}

MinOf(S) == CHOOSE x \in S : \A y \in S : x <= y

\* re.sub(r'^(.*?code=){0,1}([0-9a-f]*)\s*$', r'\2', s): the pattern is
\* anchored at both ends, so it matches the whole string or nothing; a
\* string it does not match is returned as it is.  The group is tried first
\* ({0,1} is greedy) and ends at the first "code=" that lets the rest match
\* (.*? is lazy).
re_sub(s) ==
    IF GroupEnds(s) # {}
    THEN HexPrefix(Rest(s, MinOf(GroupEnds(s))))
    ELSE IF TailMatch(s) THEN HexPrefix(s) ELSE s

\* Values of the redirected_url form field.
RawInputs ==
    { <<>>,
      <<" ", "\n">>,
      <<"a", "b">>,
      <<" ", "a", "b">>,
      <<"/", "code=", "a", "b", "\n">>,
      <<"/", "code=", "a", "&", "/">>,
      <<"/", "code=">> }

---------------------------------------------------------------------------
(* Replies of the login server *)

Missing == "<missing>"

\* Reply of oauth/token.  json = FALSE is a body that is no JSON document.
NotJson == [json |-> FALSE, error |-> Missing, error_description |-> Missing,
            token_type |-> Missing, access_token |-> Missing]

Token(e, d, t, a) ==
    [json |-> TRUE, error |-> e, error_description |-> d,
     token_type |-> t, access_token |-> a]

TokenReplies ==
    { NotJson,
      Token("invalid_grant", "desc", Missing, Missing),
      Token("invalid_grant", Missing, Missing, Missing),
      Token("invalid_grant", "desc", "bearer", "tok1"),
      Token(Missing, Missing, Missing, "tok1"),
      Token(Missing, Missing, "mac", "tok1"),
      Token(Missing, Missing, "bearer", Missing),
      Token(Missing, Missing, "bearer", "tok1"),
      Token(Missing, Missing, "bearer", "tok2") }

\* Reply of api/v1/remotepairing/application/user.  A field is missing, or
\* holds the PEM certificate asked for ("pem"), ASCII text that is no PEM
\* ("junk"), a string with a character outside ASCII ("nonascii"), or a JSON
\* value that is no string ("null").
FieldValues == {Missing, "pem", "junk", "nonascii", "null"}

PairNotJson == [json |-> FALSE, app |-> Missing, remote |-> Missing]

PairReplies ==
    {PairNotJson} \cup
    [json : {TRUE}, app : FieldValues, remote : FieldValues]

---------------------------------------------------------------------------
(* Exceptions *)

\* What a function call did: returned (type "None") or raised.
NoExc == [type |-> "None", msg |-> ""]

Raise(t, m) == [type |-> t, msg |-> m]

\* Classes that "except ValueError" catches: ValueError and its subclasses.
IsValueError(e) ==
    e.type \in {"ValueError", "JSONDecodeError", "UnicodeEncodeError"}

---------------------------------------------------------------------------
(* KeyStore *)

\* Faulty variant: generates and writes a key even when KEY_FILE exists.
get_private_key_regenerate(fs, kg) ==
    [exc |-> NoExc, key |-> kg + 1,
     fs |-> [ensure_path(fs) EXCEPT !.key = File(<<kg + 1>>)],
     kg |-> kg + 1, generated |-> TRUE]

\* Faulty variant: returns the generated key without writing KEY_FILE.
get_private_key_unsaved(fs, kg) ==
    IF isfile(fs.key)
    THEN [exc |-> NoExc, key |-> fs.key.data[1], fs |-> fs, kg |-> kg,
          generated |-> FALSE]
    ELSE [exc |-> NoExc, key |-> kg + 1, fs |-> fs, kg |-> kg + 1,
          generated |-> TRUE]

\* Faulty variant: a key file that does not parse is replaced by a new key.
get_private_key_replace(fs, kg) ==
    IF isfile(fs.key) /\ fs.key.data # <<>>
    THEN [exc |-> NoExc, key |-> fs.key.data[1], fs |-> fs, kg |-> kg,
          generated |-> FALSE]
    ELSE [exc |-> NoExc, key |-> kg + 1,
          fs |-> [ensure_path(fs) EXCEPT !.key = File(<<kg + 1>>)],
          kg |-> kg + 1, generated |-> TRUE]

\* get_private_key: load KEY_FILE; only when open() raises FileNotFoundError
\* generate a key, ensure_path() and write it.  load_pem_private_key raises
\* ValueError on content that is no PEM key.
\* Returns [exc, key, fs, kg, generated].
get_private_key(fs, kg) ==
    IF isfile(fs.key)
    THEN IF fs.key.data = <<>>
         THEN [exc |-> Raise("ValueError", "Could not deserialize key data"),
               key |-> 0, fs |-> fs, kg |-> kg, generated |-> FALSE]
         ELSE [exc |-> NoExc, key |-> fs.key.data[1], fs |-> fs, kg |-> kg,
               generated |-> FALSE]
    ELSE [exc |-> NoExc, key |-> kg + 1,
          fs |-> [ensure_path(fs) EXCEPT !.key = File(<<kg + 1>>)],
          kg |-> kg + 1, generated |-> TRUE]

\* The record of one get_private_key call kept in keycall: what it returned
\* or raised, whether KEY_FILE existed before it, whether it generated a
\* key, whether it changed the files.
KeyCall(fs, pk) ==
    [raised |-> pk.exc # NoExc, key |-> pk.key, existed |-> isfile(fs.key),
     generated |-> pk.generated, wrote |-> pk.fs # fs]

\* keycall keeps the last two calls.
Remember(kc, call) ==
    IF Len(kc) < 2 THEN Append(kc, call) ELSE <<kc[2], call>>

---------------------------------------------------------------------------
(* CertificateIssuer *)

\* x509.load_pem_x509_certificate reads the first PEM block of the data and
\* raises ValueError when there is none.
LoadsAsPem(data) == \E i \in 1..Len(data) : IsPem(data[i])

TokenEntry(code, tok) == [ep |-> "token", sent |-> code, reply |-> tok]

PairEntry(bearer, csr, pair) ==
    [ep |-> "pairing", sent |-> [bearer |-> bearer, csr |-> csr],
     reply |-> pair]

\* The block f.write(value.encode('ASCII')) puts into CERT_FILE.
Block(value, csr) ==
    IF value = "junk" THEN JunkText
    ELSE IF csr > 0 THEN AppCert(csr) ELSE RemoteCert

\* value.encode('ASCII') of a field of the pairing reply.
EncodeExc(value) ==
    IF value = "null"
    THEN Raise("AttributeError", "no attribute encode")
    ELSE IF value = "nonascii"
    THEN Raise("UnicodeEncodeError", "ascii codec can't encode")
    ELSE NoExc

\* Lines 137-140: ensure_path(), open(CERT_FILE, 'wb') creates the file
\* empty, then the two writes; a write that raises leaves what was written.
\* Returns [exc, fs].
write_cert(fs, pair, csr) ==
    LET opened == [ensure_path(fs) EXCEPT !.cert = File(<<>>)]
        one    == [opened EXCEPT !.cert = File(<<Block(pair.app, csr)>>)]
        two    == [opened EXCEPT !.cert =
                      File(<<Block(pair.app, csr), Block(pair.remote, 0)>>)]
    IN  IF EncodeExc(pair.app) # NoExc
        THEN [exc |-> EncodeExc(pair.app), fs |-> opened]
        ELSE IF EncodeExc(pair.remote) # NoExc
        THEN [exc |-> EncodeExc(pair.remote), fs |-> one]
        ELSE [exc |-> NoExc, fs |-> two]

\* Lines 104-118: the token exchange, given the reply.  Returns the
\* exception it raises, or NoExc when it yields reply.access_token.
token_exchange(tok) ==
    IF ~tok.json
    THEN Raise("JSONDecodeError", "Expecting value")
    ELSE IF tok.error # Missing
    THEN IF tok.error_description = Missing
         THEN Raise("KeyError", "error_description")
         ELSE Raise("ValueError", tok.error_description)
    ELSE IF tok.token_type # "bearer"
    THEN Raise("ValueError", "Received invalid token")
    ELSE IF tok.access_token = Missing
    THEN Raise("KeyError", "access_token")
    ELSE NoExc

\* Lines 125-135: the pairing request, given the reply.
pairing_exchange(pair) ==
    IF ~pair.json
    THEN Raise("JSONDecodeError", "Expecting value")
    ELSE IF pair.app = Missing
    THEN Raise("KeyError", "remote_signs_app_certificate")
    ELSE IF pair.remote = Missing
    THEN Raise("KeyError", "local_signs_remote_certificate")
    ELSE NoExc

\* Faulty variant: no short-circuit on an existing CERT_FILE.
get_certificate_reissue(fs, kg, oauth_code, tok, pair) ==
    LET pk   == get_private_key(fs, kg)
        t    == token_exchange(tok)
        p    == pairing_exchange(pair)
        w    == write_cert(pk.fs, pair, pk.key)
        net1 == <<TokenEntry(oauth_code, tok)>>
        net2 == <<TokenEntry(oauth_code, tok),
                  PairEntry(tok.access_token, pk.key, pair)>>
        out(e, f, k, n, c) ==
            [exc |-> e, fs |-> f, kg |-> k, net |-> n, keycalls |-> c]
    IN  IF pk.exc # NoExc
        THEN out(pk.exc, fs, kg, <<>>, <<KeyCall(fs, pk)>>)
        ELSE IF oauth_code = <<>>
        THEN out(Raise("ValueError", "Received invalid OAuth code"),
                 pk.fs, pk.kg, <<>>, <<KeyCall(fs, pk)>>)
        ELSE IF t # NoExc
        THEN out(t, pk.fs, pk.kg, net1, <<KeyCall(fs, pk)>>)
        ELSE IF p # NoExc
        THEN out(p, pk.fs, pk.kg, net2, <<KeyCall(fs, pk)>>)
        ELSE out(w.exc, w.fs, pk.kg, net2, <<KeyCall(fs, pk)>>)

\* get_certificate(oauth_code), with the replies the two servers give if
\* asked.  Returns [exc, fs, kg, net, keycalls]: the exception raised, the
\* files and key counter afterwards, the requests sent, and the
\* get_private_key calls made.
get_certificate(fs, kg, oauth_code, tok, pair) ==
    LET pk   == get_private_key(fs, kg)
        t    == token_exchange(tok)
        p    == pairing_exchange(pair)
        w    == write_cert(pk.fs, pair, pk.key)
        net1 == <<TokenEntry(oauth_code, tok)>>
        net2 == <<TokenEntry(oauth_code, tok),
                  PairEntry(tok.access_token, pk.key, pair)>>
        out(e, f, k, n, c) ==
            [exc |-> e, fs |-> f, kg |-> k, net |-> n, keycalls |-> c]
    IN  IF isfile(fs.cert)
        THEN IF LoadsAsPem(fs.cert.data)
             THEN out(NoExc, fs, kg, <<>>, <<>>)
             ELSE out(Raise("ValueError", "Unable to load PEM file"),
                      fs, kg, <<>>, <<>>)
        ELSE IF pk.exc # NoExc
        THEN out(pk.exc, fs, kg, <<>>, <<KeyCall(fs, pk)>>)
        ELSE IF oauth_code = <<>>
        THEN out(Raise("ValueError", "Received invalid OAuth code"),
                 pk.fs, pk.kg, <<>>, <<KeyCall(fs, pk)>>)
        ELSE IF t # NoExc
        THEN out(t, pk.fs, pk.kg, net1, <<KeyCall(fs, pk)>>)
        ELSE IF p # NoExc
        THEN out(p, pk.fs, pk.kg, net2, <<KeyCall(fs, pk)>>)
        ELSE out(w.exc, w.fs, pk.kg, net2, <<KeyCall(fs, pk)>>)

---------------------------------------------------------------------------
(* TrustBootstrapper *)

\* Bridge addresses the operator may submit, and the certificate the TLS
\* peer presents.
Addrs == {"192.168.1.100", "bridge.local"}

PeerCerts == {"bridge1", "bridge2"}

\* How ssl_socket.connect((server_addr, 8081)) ends.
ConnectOutcomes ==
    {"ok", "refused", "unreachable", "timeout", "handshake_failed"}

connect_exc(conn) ==
    IF conn = "refused" THEN Raise("ConnectionRefusedError", "refused")
    ELSE IF conn = "unreachable" THEN Raise("OSError", "unreachable")
    ELSE IF conn = "timeout" THEN Raise("TimeoutError", "timed out")
    ELSE IF conn = "handshake_failed" THEN Raise("SSLError", "handshake")
    ELSE NoExc

\* ssl.wrap_socket(keyfile=KEY_FILE, certfile=CERT_FILE) loads the
\* certificate chain: both files must exist, the first PEM block of
\* CERT_FILE is the client certificate and KEY_FILE must hold its key.
FirstPem(data) == data[MinOf({i \in 1..Len(data) : IsPem(data[i])})]

\* Faulty variant: the certificate chain is not loaded before connecting.
wrap_socket_unchecked(fs) == NoExc

wrap_socket(fs) ==
    IF ~isfile(fs.cert) \/ ~isfile(fs.key)
    THEN Raise("FileNotFoundError", "No such file or directory")
    ELSE IF ~LoadsAsPem(fs.cert.data) \/ fs.key.data = <<>>
    THEN Raise("SSLError", "PEM lib")
    ELSE IF FirstPem(fs.cert.data) # AppCert(fs.key.data[1])
    THEN Raise("SSLError", "KEY_VALUES_MISMATCH")
    ELSE NoExc

\* The bytes the bridge sends are a sequence of symbols: a message (one
\* JSON text, or text that is no JSON) or the terminator "CRLF".
\*   Other     {"CommuniqueType": "Other"}
\*   Resp      a ReadResponse with Body.PingResponse.LEAPVersion
\*   RespNoVer a ReadResponse without Body.PingResponse.LEAPVersion
\*   NoType    a JSON object without CommuniqueType
\*   Garbage   text that is no JSON
Messages == {"Other", "Resp", "RespNoVer", "NoType", "Garbage"}

LEAPVersion == "08.00"

\* All streams of n complete lines.
RECURSIVE LinesOf(_)
LinesOf(n) ==
    IF n = 0 THEN {<<>>}
    ELSE {<<m, "CRLF">> \o s : m \in Messages, s \in LinesOf(n - 1)}

\* All ways ssl_socket.read() can cut a stream into non-empty reads.
RECURSIVE Splits(_)
Splits(s) ==
    IF s = <<>> THEN {<<>>}
    ELSE UNION {{<<SubSeq(s, 1, k)>> \o r : r \in Splits(Rest(s, k))} :
                    k \in 1..Len(s)}

\* What the bridge sends after the ping, as the reads deliver it.  After the
\* last read the socket stays silent or is at end-of-file.
Streams == UNION {Splits(s) : s \in UNION {LinesOf(n) : n \in 0..MaxLines}}

\* The messages of a buffer, terminators dropped.
RECURSIVE Texts(_)
Texts(buf) ==
    IF buf = <<>> THEN <<>>
    ELSE IF buf[1] = "CRLF" THEN Texts(Rest(buf, 1))
    ELSE <<buf[1]>> \o Texts(Rest(buf, 1))

\* Lines 164-171.  buffer accumulates reads until it ends with \r\n and is
\* then parsed as one JSON document; a ReadResponse ends the loop.  With no
\* read left the inner loop never ends (read() blocks, or returns b'' for
\* ever at end-of-file).  Returns [exc, hang, response].
RECURSIVE read_loop(_, _)
read_loop(chunks, buffer) ==
    LET buf == buffer \o Head(chunks)
        out(e, h, r) == [exc |-> e, hang |-> h, response |-> r]
    IN  IF chunks = <<>>
        THEN out(NoExc, TRUE, "")
        ELSE IF buf[Len(buf)] # "CRLF"
        THEN read_loop(Tail(chunks), buf)
        ELSE IF Len(Texts(buf)) # 1 \/ Texts(buf) = <<"Garbage">>
        THEN out(Raise("JSONDecodeError", "json.loads"), FALSE, "")
        ELSE IF Texts(buf)[1] = "NoType"
        THEN out(Raise("KeyError", "CommuniqueType"), FALSE, "")
        ELSE IF Texts(buf)[1] \in {"Resp", "RespNoVer"}
        THEN out(NoExc, FALSE, Texts(buf)[1])
        ELSE read_loop(Tail(chunks), <<>>)

PingEntry(addr) ==
    [ep |-> "bridge", sent |-> "/server/1/status/ping", reply |-> addr]

\* Every way the read loop can end on the streams above.
ReadOutcomes == {read_loop(chunks, <<>>) : chunks \in Streams}

\* Faulty variant: CA_FILE is written after the ping exchange, so only when
\* the read loop ends on a ReadResponse.
get_ca_cert_write_last(fs, addr, conn, peer, loop) ==
    LET written == [ensure_path(fs) EXCEPT !.ca = File(<<peer>>)]
        out(e, h, f, n, r) ==
            [exc |-> e, hang |-> h, fs |-> f, net |-> n, response |-> r]
    IN  IF wrap_socket(fs) # NoExc
        THEN out(wrap_socket(fs), FALSE, fs, <<>>, "")
        ELSE IF connect_exc(conn) # NoExc
        THEN out(connect_exc(conn), FALSE, fs, <<>>, "")
        ELSE out(loop.exc, loop.hang,
                 IF loop.exc = NoExc /\ ~loop.hang THEN written ELSE fs,
                 <<PingEntry(addr)>>, loop.response)

\* Faulty variant: a stale CA_FILE is removed when the connect fails.
get_ca_cert_cleanup(fs, addr, conn, peer, loop) ==
    LET written == [ensure_path(fs) EXCEPT !.ca = File(<<peer>>)]
        out(e, h, f, n, r) ==
            [exc |-> e, hang |-> h, fs |-> f, net |-> n, response |-> r]
    IN  IF wrap_socket(fs) # NoExc
        THEN out(wrap_socket(fs), FALSE, fs, <<>>, "")
        ELSE IF connect_exc(conn) # NoExc
        THEN out(connect_exc(conn), FALSE, [fs EXCEPT !.ca = Absent],
                 <<>>, "")
        ELSE out(loop.exc, loop.hang, written, <<PingEntry(addr)>>,
                 loop.response)

\* get_ca_cert(server_addr), given how the connect ends, the peer's
\* certificate and how the read loop ends on what the bridge sends.
\* Returns [exc, hang, fs, net, response].
get_ca_cert(fs, addr, conn, peer, loop) ==
    LET written == [ensure_path(fs) EXCEPT !.ca = File(<<peer>>)]
        out(e, h, f, n, r) ==
            [exc |-> e, hang |-> h, fs |-> f, net |-> n, response |-> r]
    IN  IF wrap_socket(fs) # NoExc
        THEN out(wrap_socket(fs), FALSE, fs, <<>>, "")
        ELSE IF connect_exc(conn) # NoExc
        THEN out(connect_exc(conn), FALSE, fs, <<>>, "")
        ELSE out(loop.exc, loop.hang, written, <<PingEntry(addr)>>,
                 loop.response)

---------------------------------------------------------------------------
(* ProvisioningState and the Flask session *)

\* Faulty variant: CERT_FILE is tested before CA_FILE.
currentStep_cert_first(fs) ==
    IF isfile(fs.cert) THEN "BRIDGE_PAIRING"
    ELSE IF isfile(fs.ca) THEN "COMPLETE"
    ELSE "LOGIN"

\* The step wizard() renders: the template it picks.
currentStep(fs) ==
    IF isfile(fs.ca) THEN "COMPLETE"
    ELSE IF isfile(fs.cert) THEN "BRIDGE_PAIRING"
    ELSE "LOGIN"

EmptySession == [k \in {} |-> ""]

\* session[key] = value
SessionSet(sess, key, value) ==
    [k \in DOMAIN sess \cup {key} |-> IF k = key THEN value ELSE sess[k]]

\* The three os.remove calls and session.clear() of reset(), inside one
\* try: the first FileNotFoundError skips everything after it.
\* Returns [fs, session].
reset_files(fs, sess) ==
    IF ~isfile(fs.key)
    THEN [fs |-> fs, session |-> sess]
    ELSE IF ~isfile(fs.cert)
    THEN [fs |-> [fs EXCEPT !.key = Absent], session |-> sess]
    ELSE IF ~isfile(fs.ca)
    THEN [fs |-> [fs EXCEPT !.key = Absent, !.cert = Absent],
          session |-> sess]
    ELSE [fs |-> [fs EXCEPT !.key = Absent, !.cert = Absent, !.ca = Absent],
          session |-> EmptySession]

---------------------------------------------------------------------------
(* Requests and responses *)

Request(op, raw, code, addr) ==
    [op |-> op, raw |-> raw, oauth_code |-> code, addr |-> addr,
     pre |-> files, presession |-> session]

\* 302 to wizard, 200 with a page, 500 for an exception no handler catches
\* (Flask answers Internal Server Error), "none" for a request that never
\* returns.
Redirect == [status |-> "302", exc |-> "None", page |-> ""]

Page(p) == [status |-> "200", exc |-> "None", page |-> p]

ServerError(e) == [status |-> "500", exc |-> e.type, page |-> ""]

NoResponse == [status |-> "none", exc |-> "None", page |-> ""]

Flash(cat, msg) == [category |-> cat, message |-> msg]

\* The read loop on a bridge that sends nothing.
Silent == read_loop(<<>>, <<>>)

\* ssl_socket.close() is reached only when the loop breaks on a
\* ReadResponse.
socket_closed(loop) == loop.exc = NoExc /\ ~loop.hang

\* What the bridge did: how the connect ended, the certificate it
\* presented, how the read loop ended, whether the socket was closed.
NoBridge == [conn |-> "none", peer |-> "", loop |-> Silent, closed |-> FALSE]

Bridge(conn, peer, loop) ==
    IF conn = "ok"
    THEN [conn |-> conn, peer |-> peer, loop |-> loop,
          closed |-> socket_closed(loop)]
    ELSE [NoBridge EXCEPT !.conn = conn]

---------------------------------------------------------------------------
(* Requests in flight *)

\* Flask's development server handles each request in a thread of its own.
Threads == {"t1", "t2"}

\* A thread: the route it runs, where it is in the handler, and its locals
\* (the private key it holds, the peer certificate it received).
Idle == [op |-> "none", pc |-> "idle", key |-> 0, peer |-> "", exc |-> NoExc]

\* The thread steps change the files, the key generator and the threads.
ThreadFrame ==
    UNCHANGED <<session, req, netlog, flashed, result, keycall, bridge,
                stream>>

At(t, op, pc) == threads[t].op = op /\ threads[t].pc = pc

Goto(t, pc) == threads' = [threads EXCEPT ![t].pc = pc]

\* The handler ends, with the exception exc or without one.
Finish(t, exc) == threads' = [threads EXCEPT ![t].pc = "done", ![t].exc = exc]

\* A POST /process_url or /process_addr arrives and gets its thread.
Accept(t) ==
    /\ threads[t] = Idle
    /\ \E op \in {"process_url", "process_addr"} :
          threads' = [threads EXCEPT ![t] = [Idle EXCEPT !.op = op,
                                                        !.pc = "begin"]]
    /\ UNCHANGED <<files, keygen>>
    /\ ThreadFrame

\* get_certificate: open(CERT_FILE) and parse it, or go on without one.
CheckCert(t) ==
    /\ At(t, "process_url", "begin")
    /\ IF ~isfile(files.cert) THEN Goto(t, "get_private_key")
       ELSE IF LoadsAsPem(files.cert.data) THEN Finish(t, NoExc)
       ELSE Finish(t, Raise("ValueError", "Unable to load certificate"))
    /\ UNCHANGED <<files, keygen>>
    /\ ThreadFrame

\* get_private_key: open(KEY_FILE) and parse it, or find it missing.
LoadKey(t) ==
    /\ At(t, "process_url", "get_private_key")
    /\ IF ~isfile(files.key) THEN Goto(t, "generate")
       ELSE IF files.key.data = <<>>
       THEN Finish(t, Raise("ValueError", "Could not deserialize key data"))
       ELSE threads' = [threads EXCEPT ![t].pc = "exchange",
                                       ![t].key = files.key.data[1]]
    /\ UNCHANGED <<files, keygen>>
    /\ ThreadFrame

\* get_private_key: rsa.generate_private_key.
GenerateKey(t) ==
    /\ At(t, "process_url", "generate")
    /\ keygen < MaxKeys
    /\ keygen' = keygen + 1
    /\ threads' = [threads EXCEPT ![t].pc = "open_key", ![t].key = keygen + 1]
    /\ UNCHANGED files
    /\ ThreadFrame

\* get_private_key: ensure_path() and open(KEY_FILE, 'wb'), which creates
\* or empties the file.
OpenKey(t) ==
    /\ At(t, "process_url", "open_key")
    /\ files' = [ensure_path(files) EXCEPT !.key = File(<<>>)]
    /\ Goto(t, "write_key")
    /\ UNCHANGED keygen
    /\ ThreadFrame

\* get_private_key: f.write of the key and the close of the file.
WriteKey(t) ==
    /\ At(t, "process_url", "write_key")
    /\ files' = [files EXCEPT !.key = File(<<threads[t].key>>)]
    /\ Goto(t, "exchange")
    /\ UNCHANGED keygen
    /\ ThreadFrame

\* get_certificate: the CSR signed with the thread's key, the token
\* exchange and the pairing request, which succeed or raise.
Exchange(t) ==
    /\ At(t, "process_url", "exchange")
    /\ \E ok \in BOOLEAN :
          IF ok THEN Goto(t, "open_cert")
          ELSE Finish(t, Raise("Exception", "exchange failed"))
    /\ UNCHANGED <<files, keygen>>
    /\ ThreadFrame

\* get_certificate: ensure_path() and open(CERT_FILE, 'wb').
OpenCert(t) ==
    /\ At(t, "process_url", "open_cert")
    /\ files' = [ensure_path(files) EXCEPT !.cert = File(<<>>)]
    /\ Goto(t, "write_cert")
    /\ UNCHANGED keygen
    /\ ThreadFrame

\* get_certificate: the two f.write calls and the close of the file.
WriteCert(t) ==
    /\ At(t, "process_url", "write_cert")
    /\ files' = [files EXCEPT
                    !.cert = File(<<AppCert(threads[t].key), RemoteCert>>)]
    /\ Finish(t, NoExc)
    /\ UNCHANGED keygen
    /\ ThreadFrame

\* get_ca_cert: ssl.wrap_socket and connect; the peer certificate is read
\* when the handshake is done.
Connect(t) ==
    /\ At(t, "process_addr", "begin")
    /\ IF wrap_socket(files) # NoExc THEN Finish(t, wrap_socket(files))
       ELSE \E conn \in ConnectOutcomes, peer \in PeerCerts :
               IF conn = "ok"
               THEN threads' = [threads EXCEPT ![t].pc = "open_ca",
                                               ![t].peer = peer]
               ELSE Finish(t, connect_exc(conn))
    /\ UNCHANGED <<files, keygen>>
    /\ ThreadFrame

\* get_ca_cert: ensure_path() and open(CA_FILE, 'wb').
OpenCa(t) ==
    /\ At(t, "process_addr", "open_ca")
    /\ files' = [ensure_path(files) EXCEPT !.ca = File(<<>>)]
    /\ Goto(t, "write_ca")
    /\ UNCHANGED keygen
    /\ ThreadFrame

\* get_ca_cert: f.write of the peer certificate and the close of the file.
WriteCa(t) ==
    /\ At(t, "process_addr", "write_ca")
    /\ files' = [files EXCEPT !.ca = File(<<threads[t].peer>>)]
    /\ Goto(t, "ping")
    /\ UNCHANGED keygen
    /\ ThreadFrame

\* get_ca_cert: the ping exchange, to the return or the exception.
Ping(t) ==
    /\ At(t, "process_addr", "ping")
    /\ \E loop \in {r \in ReadOutcomes : ~r.hang} : Finish(t, loop.exc)
    /\ UNCHANGED <<files, keygen>>
    /\ ThreadFrame

\* The response is sent and the thread ends.
Respond(t) ==
    /\ threads[t].pc = "done"
    /\ threads' = [threads EXCEPT ![t] = Idle]
    /\ UNCHANGED <<files, keygen>>
    /\ ThreadFrame

---------------------------------------------------------------------------
(* Routes *)

\* The replies worth drawing: a server that is not asked gives no reply.
TokenAsked(raw) ==
    /\ ~isfile(files.cert)
    /\ get_private_key(files, keygen).exc = NoExc
    /\ re_sub(raw) # <<>>

\* POST /process_url
ProcessUrl ==
    /\ isfile(files.cert) \/ isfile(files.key) \/ keygen < MaxKeys
    /\ \E raw \in RawInputs :
       \E tok \in (IF TokenAsked(raw) THEN TokenReplies ELSE {NotJson}) :
       \E pair \in (IF TokenAsked(raw) /\ token_exchange(tok) = NoExc
                    THEN PairReplies ELSE {PairNotJson}) :
       \E oauth_code \in {re_sub(raw)} :
       \E r \in {get_certificate(files, keygen, oauth_code, tok, pair)} :
              /\ req' = Request("process_url", raw, oauth_code, "")
              /\ files' = r.fs
              /\ keygen' = r.kg
              /\ netlog' = r.net
              /\ keycall' = IF r.keycalls = <<>> THEN keycall
                            ELSE Remember(keycall, r.keycalls[1])
              /\ flashed' = IF IsValueError(r.exc)
                            THEN <<Flash("danger", r.exc.msg)>> ELSE <<>>
              /\ result' = IF r.exc = NoExc \/ IsValueError(r.exc)
                           THEN Redirect ELSE ServerError(r.exc)
              /\ bridge' = NoBridge
              /\ UNCHANGED <<session, stream, threads>>

\* A bridge that is not reached presents no certificate and sends nothing.
Connected(conn) == wrap_socket(files) = NoExc /\ conn = "ok"

\* process_addr() for one address, connect outcome, peer certificate and
\* read-loop outcome.
ProcessAddrWith(addr, conn, peer, loop) ==
    \E r \in {get_ca_cert(files, addr, conn, peer, loop)} :
       LET stored == SessionSet(session, "server_addr", addr)
           refused == r.exc.type = "ConnectionRefusedError"
           done == r.exc = NoExc /\ ~r.hang /\ r.response = "Resp"
       IN  /\ req' = Request("process_addr", <<>>, <<>>, addr)
           /\ files' = r.fs
           /\ netlog' = r.net
           /\ session' = IF r.hang THEN session
                         ELSE IF done
                         THEN SessionSet(stored, "leap_version", LEAPVersion)
                         ELSE stored
           /\ flashed' = IF refused
                         THEN <<Flash("danger", "A connection could not be established")>>
                         ELSE <<>>
           /\ result' = IF r.hang THEN NoResponse
                        ELSE IF done \/ refused THEN Redirect
                        ELSE IF r.exc = NoExc
                        THEN ServerError(Raise("KeyError", "Body"))
                        ELSE ServerError(r.exc)
           /\ bridge' = IF wrap_socket(files) = NoExc
                        THEN Bridge(conn, peer, loop) ELSE NoBridge
           /\ UNCHANGED <<keygen, keycall, stream, threads>>

\* POST /process_addr
ProcessAddr ==
    \E addr \in Addrs :
    \E conn \in (IF wrap_socket(files) = NoExc
                 THEN ConnectOutcomes ELSE {"refused"}) :
    \E peer \in (IF Connected(conn) THEN PeerCerts ELSE {"bridge1"}) :
    \E loop \in (IF Connected(conn) THEN ReadOutcomes ELSE {Silent}) :
       ProcessAddrWith(addr, conn, peer, loop)

\* POST /process_addr to a bridge that accepts the connection and delivers
\* the reads of stream.
ProcessAddrStream ==
    \E addr \in Addrs, peer \in PeerCerts :
       ProcessAddrWith(addr, "ok", peer, read_loop(stream, <<>>))

\* GET /reset
Reset ==
    LET r == reset_files(files, session)
    IN  /\ req' = Request("reset", <<>>, <<>>, "")
        /\ files' = r.fs
        /\ session' = r.session
        /\ keycall' = IF isfile(files.key) THEN <<>> ELSE keycall
        /\ netlog' = <<>>
        /\ flashed' = <<Flash("warning", "The certificate files have been deleted and your session has been reset.")>>
        /\ result' = Redirect
        /\ bridge' = NoBridge
        /\ UNCHANGED <<keygen, stream, threads>>

\* GET /
Wizard ==
    /\ req' = Request("wizard", <<>>, <<>>, "")
    /\ netlog' = <<>>
    /\ flashed' = IF isfile(files.ca) /\ "leap_version" \in DOMAIN session
                  THEN <<Flash("success", session["leap_version"])>>
                  ELSE <<>>
    /\ result' = Page(currentStep(files))
    /\ bridge' = NoBridge
    /\ UNCHANGED <<files, session, keygen, keycall, stream, threads>>

\* GET /debug
Debug ==
    /\ req' = Request("debug", <<>>, <<>>, "")
    /\ netlog' = <<>>
    /\ flashed' = <<>>
    /\ result' = Page("debug")
    /\ bridge' = NoBridge
    /\ UNCHANGED <<files, session, keygen, keycall, stream, threads>>

---------------------------------------------------------------------------
(* Specifications *)

\* main() on fresh storage: ensure_path() has created the directory, no
\* file exists, the browser holds no session.
InitWith(fs, kg) ==
    /\ files = fs
    /\ keygen = kg
    /\ session = EmptySession
    /\ req = [op |-> "start", raw |-> <<>>, oauth_code |-> <<>>, addr |-> "",
              pre |-> fs, presession |-> EmptySession]
    /\ netlog = <<>>
    /\ flashed = <<>>
    /\ result = NoResponse
    /\ keycall = <<>>
    /\ bridge = NoBridge
    /\ stream = <<>>
    /\ threads = [t \in Threads |-> Idle]

Init == InitWith(FreshFiles, 0)

Next == ProcessUrl \/ ProcessAddr \/ Reset \/ Wizard \/ Debug

Spec == Init /\ [][Next]_vars

\* main() on storage an earlier run, or the operator, left behind: /ssl is
\* kept across restarts and shared, so every subset of the three files can
\* be there, and a file can hold anything.  Key 1 is the key of that
\* earlier run.
DiskStates ==
    [dir  : {TRUE},
     key  : {Absent, File(<<>>), File(<<1>>)},
     cert : {Absent, File(<<>>), File(<<AppCert(1), RemoteCert>>)},
     ca   : {Absent, File(<<"bridge1">>)}]

InitDisk == \E fs \in DiskStates : InitWith(fs, 1)

SpecDisk == InitDisk /\ [][Next]_vars

\* The read loop on every stream: the certificate of key 1 has been issued,
\* the bridge accepts the connection and will deliver the reads of stream.
IssuedFiles ==
    [FreshFiles EXCEPT !.key = File(<<1>>),
                       !.cert = File(<<AppCert(1), RemoteCert>>)]

InitRead ==
    /\ files = IssuedFiles
    /\ keygen = 1
    /\ session = EmptySession
    /\ req = [op |-> "start", raw |-> <<>>, oauth_code |-> <<>>, addr |-> "",
              pre |-> IssuedFiles, presession |-> EmptySession]
    /\ netlog = <<>>
    /\ flashed = <<>>
    /\ result = NoResponse
    /\ keycall = <<>>
    /\ bridge = NoBridge
    /\ stream \in Streams
    /\ threads = [t \in Threads |-> Idle]

SpecRead == InitRead /\ [][ProcessAddrStream]_vars

\* The server on fresh storage with its requests handled in threads, each
\* handler advancing a statement at a time; nothing in the code locks.
InitConc == InitWith(FreshFiles, 0)

NextConc ==
    \E t \in Threads :
        \/ Accept(t)
        \/ CheckCert(t)
        \/ LoadKey(t)
        \/ GenerateKey(t)
        \/ OpenKey(t)
        \/ WriteKey(t)
        \/ Exchange(t)
        \/ OpenCert(t)
        \/ WriteCert(t)
        \/ Connect(t)
        \/ OpenCa(t)
        \/ WriteCa(t)
        \/ Ping(t)
        \/ Respond(t)

SpecConc == InitConc /\ [][NextConc]_vars

---------------------------------------------------------------------------
(* Properties *)

NoFiles(fs) == ~isfile(fs.key) /\ ~isfile(fs.cert) /\ ~isfile(fs.ca)

\* The last request was a POST /process_url, i.e. an issueCertificate call.
Issued == req.op = "process_url"

\* The last request was a POST /process_addr, i.e. a bootstrapTrust call.
Bootstrapped == req.op = "process_addr"

\* The call of the last request ended without an exception.
NoError == result = Redirect /\ flashed = <<>>

\* The call failed and the failure was flashed as a message to the user.
FlashedError ==
    /\ result = Redirect
    /\ Len(flashed) = 1
    /\ flashed[1].category = "danger"

\* C1: whichever subset of the three files exists before reset(), reset()
\* completes without error and afterwards all three files are absent and
\* currentStep() is LOGIN.
C1_ResetDeletesAll ==
    req.op = "reset" =>
        /\ result = Redirect
        /\ NoFiles(files)
        /\ currentStep(files) = "LOGIN"

\* C2: the page wizard() renders is COMPLETE iff the CA bundle exists,
\* BRIDGE_PAIRING iff the certificate exists and the CA bundle does not,
\* LOGIN otherwise, whether or not the private key exists.
C2_StepPartition ==
    req.op = "wizard" =>
        /\ result.page \in {"LOGIN", "BRIDGE_PAIRING", "COMPLETE"}
        /\ result.page = "COMPLETE" <=> isfile(files.ca)
        /\ result.page = "BRIDGE_PAIRING" <=>
               (isfile(files.cert) /\ ~isfile(files.ca))
        /\ result.page = "LOGIN" <=>
               (~isfile(files.cert) /\ ~isfile(files.ca))

\* C2 witness: the CA bundle alone on disk (no key, no certificate) is
\* rendered as COMPLETE.
C2_Witness ==
    /\ req.op = "wizard"
    /\ isfile(files.ca) /\ ~isfile(files.cert) /\ ~isfile(files.key)
    /\ result.page = "COMPLETE"

ExchangeSucceeded ==
    /\ Len(netlog) = 2
    /\ netlog[1].reply.json
    /\ netlog[1].reply.error = Missing
    /\ netlog[1].reply.token_type = "bearer"
    /\ netlog[1].reply.access_token # Missing
    /\ netlog[2].reply.json
    /\ netlog[2].reply.app # Missing
    /\ netlog[2].reply.remote # Missing

\* C4: the certificate file is written only by an issueCertificate call
\* whose token exchange and pairing both succeeded; a call that fails at any
\* step writes no certificate file, so currentStep() stays LOGIN.
C4_CertOnlyAfterSuccess ==
    /\ (Issued /\ ~isfile(req.pre.cert)) =>
          /\ isfile(files.cert) => ExchangeSucceeded
          /\ ~NoError => (~isfile(files.cert) /\ currentStep(files) = "LOGIN")
    /\ (~Issued /\ isfile(files.cert)) => files.cert = req.pre.cert

\* C5: the CA bundle exists only if the certificate exists, and a
\* bootstrapTrust call made while the certificate is absent does not write
\* the CA bundle.
C5_CaNeedsCert ==
    /\ isfile(files.ca) => isfile(files.cert)
    /\ (Bootstrapped /\ ~isfile(req.pre.cert)) => files.ca = req.pre.ca

\* C5 witness: a bootstrapTrust call has just written the CA bundle.
C5_Witness ==
    /\ Bootstrapped
    /\ ~isfile(req.pre.ca) /\ isfile(files.ca) /\ isfile(files.cert)

\* C6: the certificate file exists only if the private key file exists.
C6_CertNeedsKey == isfile(files.cert) => isfile(files.key)

\* C6 witness: an issueCertificate call on fresh storage has just written
\* the certificate.
C6_Witness ==
    /\ Issued
    /\ NoFiles(req.pre) /\ isfile(files.cert) /\ isfile(files.key)

\* C7: of two successive get_private_key calls with no deletion of the key
\* file in between, the second generates and writes nothing and returns the
\* key the first returned; a call generates and writes a key only when the
\* key file is absent.
C7_KeyDurable ==
    /\ \A i \in 1..Len(keycall) :
          /\ keycall[i].generated <=> ~keycall[i].existed
          /\ keycall[i].wrote <=> keycall[i].generated
    /\ Len(keycall) = 2 =>
          /\ ~keycall[2].generated /\ ~keycall[2].wrote
          /\ (~keycall[1].raised /\ ~keycall[2].raised) =>
                 keycall[2].key = keycall[1].key
          /\ isfile(files.key) /\ files.key.data = <<keycall[1].key>>

\* C7 witness: a first call that generated key 1, then a second call that
\* loaded it.
C7_Witness ==
    /\ Len(keycall) = 2
    /\ keycall[1].generated /\ keycall[1].key = 1
    /\ ~keycall[2].generated /\ keycall[2].key = 1

\* s contains "code=".
HasCode(s) == \E k \in 1..Len(s) : s[k] = "code="

\* The symbols after the first "code=" of s, up to the first one outside
\* [0-9a-f].
HexAfterCode(s) ==
    HexPrefix(Rest(s, MinOf({k \in 1..Len(s) : s[k] = "code="})))

\* s without its leading and trailing whitespace.
RECURSIVE Trim(_)
Trim(s) ==
    IF s = <<>> THEN s
    ELSE IF IsSpace(s[1]) THEN Trim(Rest(s, 1))
    ELSE IF IsSpace(s[Len(s)]) THEN Trim(SubSeq(s, 1, Len(s) - 1))
    ELSE s

\* C8: from fresh storage, an issueCertificate call whose input contains
\* code=<hex>, whose token reply is a bearer access token and whose pairing
\* reply holds both certificates sends the extracted code to the token
\* endpoint, the access token as bearer of the pairing request, and ends
\* with the key present, the certificate file holding the application
\* certificate followed by the remote certificate, and BRIDGE_PAIRING.
C8_EndToEnd ==
    ( /\ Issued
      /\ NoFiles(req.pre)
      /\ HasCode(req.raw) /\ HexAfterCode(req.raw) # <<>>
      /\ ExchangeSucceeded
      /\ netlog[2].reply.app = "pem" /\ netlog[2].reply.remote = "pem" ) =>
        /\ netlog[1].ep = "token"
        /\ netlog[1].sent = HexAfterCode(req.raw)
        /\ netlog[2].ep = "pairing"
        /\ netlog[2].sent.bearer = netlog[1].reply.access_token
        /\ isfile(files.key)
        /\ isfile(files.cert)
        /\ files.cert.data = <<AppCert(files.key.data[1]), RemoteCert>>
        /\ currentStep(files) = "BRIDGE_PAIRING"

\* C9: the code used is the hexadecimal characters after "code=" when the
\* input contains "code=", and the whole trimmed input otherwise; on empty
\* or whitespace-only input issueCertificate fails with the invalid-code
\* error and sends no token request.
C9_Normalization ==
    Issued =>
        /\ HasCode(req.raw) => req.oauth_code = HexAfterCode(req.raw)
        /\ ~HasCode(req.raw) => req.oauth_code = Trim(req.raw)
        /\ (Trim(req.raw) = <<>> /\ ~isfile(req.pre.cert)) =>
              /\ netlog = <<>>
              /\ FlashedError
              /\ flashed[1].message = "Received invalid OAuth code"

\* C10: a token reply with an error field, or whose token type is not
\* bearer, makes issueCertificate fail with an error flashed to the user,
\* with no pairing request sent and no certificate file written.
C10_TokenError ==
    ( /\ Issued
      /\ Len(netlog) >= 1
      /\ netlog[1].reply.json
      /\ \/ netlog[1].reply.error # Missing
         \/ netlog[1].reply.token_type # "bearer" ) =>
        /\ FlashedError
        /\ Len(netlog) = 1
        /\ ~isfile(files.cert)


\* C11: a pairing reply that is no JSON or lacks either certificate field
\* makes issueCertificate fail with an error flashed to the user, and no
\* certificate file is written.
C11_PairingError ==
    ( /\ Issued
      /\ Len(netlog) = 2
      /\ \/ ~netlog[2].reply.json
         \/ netlog[2].reply.app = Missing
         \/ netlog[2].reply.remote = Missing ) =>
        /\ FlashedError
        /\ ~isfile(files.cert)

\* C12: when the connection to the bridge is refused, unreachable or times
\* out, bootstrapTrust fails with an error flashed to the user and the CA
\* bundle is not written.
C12_ConnectionError ==
    ( /\ Bootstrapped
      /\ bridge.conn \in {"refused", "unreachable", "timeout"} ) =>
        /\ FlashedError
        /\ files.ca = req.pre.ca

\* The symbols of a stream in the order sent, whatever the reads.
RECURSIVE Flat(_)
Flat(chunks) ==
    IF chunks = <<>> THEN <<>> ELSE Head(chunks) \o Flat(Tail(chunks))

\* s is made of complete lines, and its messages are msgs.
IsLines(s, msgs) ==
    /\ Len(s) = 2 * Len(msgs)
    /\ \A i \in 1..Len(msgs) : s[2 * i - 1] = msgs[i] /\ s[2 * i] = "CRLF"

\* The stream is some complete non-response lines, then one ReadResponse
\* line with a version.
PingScenario ==
    /\ Flat(stream) # <<>>
    /\ IsLines(Flat(stream), Texts(Flat(stream)))
    /\ \A i \in 1..Len(Texts(Flat(stream))) :
          Texts(Flat(stream))[i] =
              (IF i = Len(Texts(Flat(stream))) THEN "Resp" ELSE "Other")

\* C13: on a stream of complete non-response lines followed by one
\* ReadResponse line, however it is split across reads, bootstrapTrust
\* discards the non-response lines and returns the LEAPVersion of the
\* ReadResponse.
C13_ReadLoopAnySplit ==
    (Bootstrapped /\ PingScenario) =>
        /\ NoError
        /\ bridge.loop.response = "Resp"
        /\ "leap_version" \in DOMAIN session
        /\ session["leap_version"] = LEAPVersion

\* The bridge never sends a complete response line: it sends nothing, or
\* only complete non-response lines.
NoResponseLine ==
    /\ IsLines(Flat(stream), Texts(Flat(stream)))
    /\ \A i \in 1..Len(Texts(Flat(stream))) :
          Texts(Flat(stream))[i] = "Other"

\* C14: every bootstrapTrust call returns; when the bridge accepts the
\* connection and never sends a complete response line the call ends with
\* a connection error instead of never returning.
C14_BootstrapTerminates ==
    Bootstrapped =>
        /\ result # NoResponse
        /\ NoResponseLine => FlashedError

\* C15: when the accumulated bytes do not parse as JSON, a message lacks
\* CommuniqueType, or the ReadResponse lacks Body.PingResponse.LEAPVersion,
\* bootstrapTrust fails with an error flashed to the user, not with an
\* unhandled failure.
C15_ProtocolError ==
    ( /\ Bootstrapped
      /\ bridge.conn = "ok"
      /\ \/ bridge.loop.exc.type \in {"JSONDecodeError", "KeyError"}
         \/ bridge.loop.response = "RespNoVer" ) =>
        FlashedError

\* C16: when the key file exists and does not parse, an issueCertificate
\* call that reaches get_private_key fails with the parse error, which
\* reaches the caller; no key is generated and the files are unchanged.
C16_KeyParseError ==
    ( /\ Issued
      /\ isfile(req.pre.key) /\ req.pre.key.data = <<>>
      /\ ~isfile(req.pre.cert) ) =>
        /\ files = req.pre
        /\ netlog = <<>>
        /\ FlashedError
        /\ flashed[1].message = "Could not deserialize key data"
        /\ keycall # <<>>
        /\ keycall[Len(keycall)].raised
        /\ ~keycall[Len(keycall)].generated
        /\ ~keycall[Len(keycall)].wrote

\* C16 witness: a call with a usable code found a key file that does not
\* parse and left it as it was.
C16_Witness ==
    /\ Issued
    /\ req.oauth_code = <<"a", "b">>
    /\ isfile(req.pre.key) /\ req.pre.key.data = <<>>
    /\ ~isfile(req.pre.cert)
    /\ files.key = File(<<>>)
    /\ FlashedError

\* C17: every reset() clears the session, whichever files existed.
C17_ResetClearsSession == req.op = "reset" => session = EmptySession

\* The order LOGIN < BRIDGE_PAIRING < COMPLETE.
StepRank(step) ==
    IF step = "LOGIN" THEN 0 ELSE IF step = "BRIDGE_PAIRING" THEN 1 ELSE 2

\* C19: a request lowers currentStep() only if it is a reset(); no
\* issueCertificate or bootstrapTrust call, failed or not, moves it back.
C19_StepMonotone ==
    StepRank(currentStep(files)) < StepRank(currentStep(req.pre)) =>
        req.op = "reset"

\* C19 witness: a bootstrapTrust call that failed at COMPLETE left the step
\* at COMPLETE.
C19_Witness ==
    /\ Bootstrapped
    /\ result.status = "500"
    /\ currentStep(req.pre) = "COMPLETE"
    /\ currentStep(files) = "COMPLETE"

\* C20: a bootstrapTrust call that completes the handshake leaves the
\* peer's certificate in the CA bundle and currentStep() at COMPLETE, also
\* when the ping exchange fails or never ends; it sends the ping once, and
\* closes the connection exactly when the loop has seen a ReadResponse.
C20_CaBeforePing ==
    (Bootstrapped /\ bridge.conn = "ok") =>
        /\ files.ca = File(<<bridge.peer>>)
        /\ currentStep(files) = "COMPLETE"
        /\ Len(netlog) = 1
        /\ netlog[1].ep = "bridge"
        /\ netlog[1].sent = "/server/1/status/ping"
        /\ bridge.closed <=> bridge.loop.response \in {"Resp", "RespNoVer"}

\* C20 witness: the handshake succeeded on storage without a CA bundle, the
\* bridge then stayed silent, and the CA bundle is on disk.
C20_Witness ==
    /\ Bootstrapped
    /\ bridge.conn = "ok"
    /\ bridge.loop.hang
    /\ ~isfile(req.pre.ca)
    /\ isfile(files.ca)


\* Thread t has opened the file for writing and not yet closed it.
Writing(t, pc) == threads[t].pc = pc

\* No request is in a handler.
Quiescent == \A t \in Threads : threads[t].pc \in {"idle", "done"}

\* C18: whatever the interleaving of two issueCertificate or bootstrapTrust
\* calls, no two of them are writing the same file at once, and once both
\* are over the key on disk is the key that signed the CSR of the
\* certificate on disk.
C18_WritesAreCritical ==
    /\ \A pc \in {"write_key", "write_cert", "write_ca"} :
          \A t, u \in Threads :
              (Writing(t, pc) /\ Writing(u, pc)) => t = u
    /\ ( /\ Quiescent
         /\ isfile(files.key) /\ files.key.data # <<>>
         /\ isfile(files.cert) /\ LoadsAsPem(files.cert.data) ) =>
            FirstPem(files.cert.data) = AppCert(files.key.data[1])

===========================================================================
